---- MODULE Spec2Model ----
(***************************************************************************)
(* A model of the waveform renderer (src/aaltomuoto/aaltomuoto.py) and of  *)
(* the modification-time search (src/diggah/diggah.py).                    *)
(*                                                                         *)
(* Six specifications share the module's variables:                        *)
(*   SpecExtract  one call of extract_amplitudes                           *)
(*   SpecResize   one call of resize_array                                 *)
(*   Spec         one call of render_waveform, pass by pass                *)
(*   SpecFind     one run of FileSystemSearcher.find_items                 *)
(*   SpecAnyOrder render_waveform with the bar columns in any order        *)
(*   SpecMain     main: extraction, then the call of render_waveform       *)
(* Each leaves the variables of the functions it does not run idle.        *)
(*                                                                         *)
(* Python sequences are 0-based; a TLA+ sequence s holds element k of the  *)
(* Python sequence at s[k + 1].                                            *)
(***************************************************************************)
EXTENDS Integers, Sequences, FiniteSets, TLC

VARIABLES
    \* extract_amplitudes
    data, ex_pc, ex_out,
    \* resize_array
    arr, target_len, rs_pc, rs_out,
    \* render_waveform
    original_amps, band_amps, duration_seconds, width, height,
    pc, resized_bands, pixels, title, x_indices, cols, x, i,
    ticks, labels, saved, err,
    \* FileSystemSearcher.find_items
    fs, start_ts, end_ts, include_files, walk, yielded

ex_vars == <<data, ex_pc, ex_out>>
rs_vars == <<arr, target_len, rs_pc, rs_out>>
rw_vars == <<original_amps, band_amps, duration_seconds, width, height,
             pc, resized_bands, pixels, title, x_indices, cols, x, i,
             ticks, labels, saved, err>>
fi_vars == <<fs, start_ts, end_ts, include_files, walk, yielded>>
vars == <<ex_vars, rs_vars, rw_vars, fi_vars>>

----------------------------------------------------------------------------
(* Bounds of the model.                                                    *)

MaxStreamLen == 5
MaxArrLen == 4
MaxTargetLen == 4

----------------------------------------------------------------------------
(* Arithmetic helpers.                                                     *)

Abs(v) == IF v < 0 THEN -v ELSE v

Max(a, b) == IF a >= b THEN a ELSE b

Min(a, b) == IF a <= b THEN a ELSE b

\* int(a / b) of Python for b > 0: the quotient truncated toward zero.
TruncDiv(a, b) == IF a >= 0 THEN a \div b ELSE -((-a) \div b)

\* Element k (0-based) of a Python sequence.
At(s, k) == s[k + 1]

----------------------------------------------------------------------------
(* extract_amplitudes                                                      *)

INT8_MIN == -128
INT8_MAX == 127

InInt8(v) == INT8_MIN <= v /\ v <= INT8_MAX

\* The value an out-of-range integer takes when the conversion to int8 wraps.
WrapInt8(v) == ((v + 128) % 256) - 128

\* np.array(raw_data, dtype=np.int8).  A value outside int8 raises
\* OverflowError on a NumPy that refuses the conversion and wraps on one that
\* does not; `wraps` says which NumPy runs.
ToInt8(raw_data, wraps) ==
    IF \A k \in 1..Len(raw_data) : InInt8(raw_data[k])
    THEN [status |-> "ok", value |-> raw_data]
    ELSE IF wraps
         THEN [status |-> "ok",
               value |-> [k \in 1..Len(raw_data) |-> WrapInt8(raw_data[k])]]
         ELSE [status |-> "OverflowError", value |-> <<>>]

\* raw[0::2] and raw[1::2]
EvenSlice(raw) == [k \in 1..((Len(raw) + 1) \div 2) |-> raw[2 * k - 1]]
OddSlice(raw) == [k \in 1..(Len(raw) \div 2) |-> raw[2 * k]]

\* np.maximum(mins, np.abs(maxs)): the absolute value of the minima forgotten.
MaximumNoAbsMin(mins, maxs) ==
    IF Len(mins) = Len(maxs)
    THEN [status |-> "ok",
          value |-> [k \in 1..Len(mins) |-> Max(mins[k], Abs(maxs[k]))]]
    ELSE IF Len(maxs) = 1
    THEN [status |-> "ok",
          value |-> [k \in 1..Len(mins) |-> Max(mins[k], Abs(maxs[1]))]]
    ELSE IF Len(mins) = 1
    THEN [status |-> "ok",
          value |-> [k \in 1..Len(maxs) |-> Max(mins[1], Abs(maxs[k]))]]
    ELSE [status |-> "ValueError", value |-> <<>>]

\* np.maximum(np.abs(mins), np.abs(maxs)) with NumPy's broadcasting of two
\* one-dimensional operands: equal lengths pair up, a length-1 operand is
\* stretched to the other's length (a length of 0 included), anything else
\* raises ValueError.
MaximumAbs(mins, maxs) ==
    IF Len(mins) = Len(maxs)
    THEN [status |-> "ok",
          value |-> [k \in 1..Len(mins) |-> Max(Abs(mins[k]), Abs(maxs[k]))]]
    ELSE IF Len(maxs) = 1
    THEN [status |-> "ok",
          value |-> [k \in 1..Len(mins) |-> Max(Abs(mins[k]), Abs(maxs[1]))]]
    ELSE IF Len(mins) = 1
    THEN [status |-> "ok",
          value |-> [k \in 1..Len(maxs) |-> Max(Abs(mins[1]), Abs(maxs[k]))]]
    ELSE [status |-> "ValueError", value |-> <<>>]

extract_amplitudes(raw_data, wraps) ==
    LET raw == ToInt8(raw_data, wraps)
    IN  IF raw.status # "ok"
        THEN raw
        ELSE MaximumAbs(EvenSlice(raw.value), OddSlice(raw.value))

\* Values a peak-pair stream is drawn from: both ends of int8, their
\* out-of-range neighbours, and values in between.
SampleValues == {-129, -128, -3, 0, 127, 128}

RECURSIVE SeqsUpTo(_, _)
SeqsUpTo(S, n) ==
    IF n = 0 THEN {<<>>}
    ELSE LET shorter == SeqsUpTo(S, n - 1)
         IN  shorter \cup
             {Append(s, v) : s \in {t \in shorter : Len(t) = n - 1}, v \in S}

Streams == SeqsUpTo(SampleValues, MaxStreamLen)

ExtractIdle ==
    /\ data = <<>>
    /\ ex_pc = "idle"
    /\ ex_out = <<>>

ExtractInit ==
    /\ data \in Streams
    /\ ex_pc = "call"
    /\ ex_out = <<>>

\* One call of extract_amplitudes: it returns a magnitude sequence or raises.
Extract ==
    /\ ex_pc = "call"
    /\ \E wraps \in BOOLEAN :
         LET r == extract_amplitudes(data, wraps)
         IN  /\ ex_pc' = IF r.status = "ok" THEN "returned" ELSE r.status
             /\ ex_out' = r.value
    /\ UNCHANGED data

----------------------------------------------------------------------------
(* resize_array                                                            *)

\* linspace run to the length of the source instead of its last index.
linspaceToLength(stop, num, k) ==
    IF num = 1 THEN 0
    ELSE IF k = num - 1 THEN stop + 1
    ELSE TruncDiv(k * (stop + 1), num - 1)

\* linspace with the endpoint assigned also when num = 1.
linspaceEndpointAlways(stop, num, k) ==
    IF k = num - 1 THEN stop
    ELSE TruncDiv(k * stop, num - 1)

\* int(np.linspace(0, stop, num)[k]) for 0 <= k < num: num evenly spaced
\* samples from 0 to stop, the last one set to stop itself when num > 1,
\* each truncated toward zero by astype(np.intp).  The floating-point product
\* k * (stop / (num - 1)) truncates to the exact quotient for every stop and
\* num the model draws.
linspace(stop, num, k) ==
    IF num = 1 THEN 0
    ELSE IF k = num - 1 THEN stop
    ELSE TruncDiv(k * stop, num - 1)

\* arr[indices] for an index array: a negative index counts from the end,
\* an index outside the array raises IndexError.
Take(a, indices) ==
    IF \A k \in 1..Len(indices) :
           -Len(a) <= indices[k] /\ indices[k] < Len(a)
    THEN [status |-> "ok",
          value |-> [k \in 1..Len(indices) |->
                       IF indices[k] < 0
                       THEN At(a, indices[k] + Len(a))
                       ELSE At(a, indices[k])]]
    ELSE [status |-> "IndexError", value |-> <<>>]

resize_array(a, n) ==
    IF Len(a) = n
    THEN [status |-> "ok", value |-> a]
    ELSE Take(a, [k \in 1..n |-> linspace(Len(a) - 1, n, k - 1)])

ArrValues == {0, 5, 120}

ResizeIdle ==
    /\ arr = <<>>
    /\ target_len = 0
    /\ rs_pc = "idle"
    /\ rs_out = <<>>

ResizeInit ==
    /\ arr \in SeqsUpTo(ArrValues, MaxArrLen)
    /\ target_len \in 0..MaxTargetLen
    /\ rs_pc = "call"
    /\ rs_out = <<>>

\* One call of resize_array.
Resize ==
    /\ rs_pc = "call"
    /\ LET r == resize_array(arr, target_len)
       IN  /\ rs_pc' = IF r.status = "ok" THEN "returned" ELSE r.status
           /\ rs_out' = r.value
    /\ UNCHANGED <<arr, target_len>>

----------------------------------------------------------------------------
(* render_waveform: constants                                              *)

BandNames == <<"sub", "bass", "lowmid", "mid", "highmid", "high">>

BandSet == {BandNames[k] : k \in 1..Len(BandNames)}

BAND_COLORS ==
    [name \in BandSet |->
        CASE name = "sub" -> <<20, 60, 140>>
          [] name = "bass" -> <<30, 100, 180>>
          [] name = "lowmid" -> <<50, 140, 210>>
          [] name = "mid" -> <<70, 180, 230>>
          [] name = "highmid" -> <<120, 210, 250>>
          [] name = "high" -> <<200, 240, 255>>]

TITLE_HEIGHT == 25
TIMELINE_HEIGHT == 20

BG_COLOR == <<5, 10, 20>>
CENTER_LINE_COLOR == <<25, 50, 80>>
QUIET_COLOR == <<40, 80, 120>>
TIMELINE_COLOR == <<30, 60, 100>>
TICK_COLOR == <<60, 120, 180>>

QUIET_THRESHOLD == 8

tick_interval == 30

\* The full scale of the amplitude in the bar height, the 127.0 of line 205.
FULL_SCALE == 127

\* 1 / 1e-6: the blend's total is held in units of the epsilon of line 219.
EPS_INV == 1000000

\* The rows a tick spans below the timeline, the 5 of line 247.
TICK_ROWS == 5

\* The label's offset from its tick, the 3 of line 253.
LABEL_OFFSET == 3

----------------------------------------------------------------------------
(* render_waveform: layout and pixel access                                *)

\* waveform_height = height - TIMELINE_HEIGHT - TITLE_HEIGHT
waveform_height(h) == h - TIMELINE_HEIGHT - TITLE_HEIGHT

\* waveform_height // 2, Python's floor division
half_height(h) == waveform_height(h) \div 2

\* center_y = TITLE_HEIGHT + waveform_height // 2
center_y(h) == TITLE_HEIGHT + half_height(h)

\* timeline_y = TITLE_HEIGHT + waveform_height
timeline_y(h) == TITLE_HEIGHT + waveform_height(h)

\* Image.new("RGB", (width, height), color=BG_COLOR) and img.load()
NewCanvas(w, h) == [p \in (0..(w - 1)) \X (0..(h - 1)) |-> BG_COLOR]

\* The coordinate a pixel access uses: a negative one counts from the far
\* edge, as the image library's pixel access does.
Wrapped(p, w, h) ==
    <<IF p[1] < 0 THEN p[1] + w ELSE p[1], IF p[2] < 0 THEN p[2] + h ELSE p[2]>>

OnCanvas(p, w, h) ==
    /\ 0 <= Wrapped(p, w, h)[1] /\ Wrapped(p, w, h)[1] < w
    /\ 0 <= Wrapped(p, w, h)[2] /\ Wrapped(p, w, h)[2] < h

\* pixels[x, y] = color for every (x, y) of coords; an access outside the
\* image raises IndexError.  In every pass the first access is the one that
\* raises when one does, so a raising pass leaves the canvas as it was.
Paint(px, w, h, coords, color) ==
    IF \A p \in coords : OnCanvas(p, w, h)
    THEN [status |-> "ok",
          value |-> [p \in DOMAIN px |->
                       IF \E q \in coords : Wrapped(q, w, h) = p
                       THEN color ELSE px[p]]]
    ELSE [status |-> "IndexError", value |-> px]

----------------------------------------------------------------------------
(* render_waveform: the per-column computation                             *)

\* arr[idx] for one integer index: a negative index counts from the end.
InBounds(a, idx) == -Len(a) <= idx /\ idx < Len(a)
Item(a, idx) == IF idx < 0 THEN At(a, idx + Len(a)) ELSE At(a, idx)

\* The bar height from the exact half of the waveform area's height.
bar_height_exact_half(amp, h) == TruncDiv(amp * waveform_height(h), 2 * FULL_SCALE)

\* The bar height scaled by the unsigned 8-bit full scale instead of 127.
bar_height_scale_255(amp, h) == TruncDiv(amp * half_height(h), 255)

\* bar_height = int((amp / 127.0) * (waveform_height // 2))
bar_height(amp, h) == TruncDiv(amp * half_height(h), FULL_SCALE)

\* band_vals: each band's resized magnitude at sample idx
band_vals(bands, idx) == [name \in BandSet |-> Item(bands[name], idx)]

\* sum(band_vals.values())
RECURSIVE SumBands(_, _)
SumBands(vals, k) ==
    IF k = 0 THEN 0 ELSE vals[BandNames[k]] + SumBands(vals, k - 1)

\* The total with the epsilon left out.
total_micro_no_eps(vals) == SumBands(vals, Len(BandNames)) * EPS_INV

\* total = sum(band_vals.values()) + 1e-6, in units of 1e-6
total_micro(vals) == SumBands(vals, Len(BandNames)) * EPS_INV + 1

\* sum over the bands of BAND_COLORS[name][c] * val: the numerator of
\* channel c before the division by total
RECURSIVE Weighted(_, _, _)
Weighted(vals, c, k) ==
    IF k = 0 THEN 0
    ELSE BAND_COLORS[BandNames[k]][c] * vals[BandNames[k]]
         + Weighted(vals, c, k - 1)

\* The numerator of channel c with the last band ("high") left out.
channel_sum_drop_high(vals, c) == Weighted(vals, c, Len(BandNames) - 1)

\* The numerator of channel c over all six bands (lines 221-222).
channel_sum(vals, c) == Weighted(vals, c, Len(BandNames))

\* int(n / (t * 1e-6)), the truncation of line 223, for n >= 0 and t > 0 in
\* units of 1e-6, without forming n * 10^6.  With t = s * 10^6 + e and
\* n = q * s + r:  n * 10^6 = q * t + (r * 10^6 - q * e), so the quotient is
\* q when r * 10^6 >= q * e and q - 1 otherwise (e is at most 1 here and q
\* at most 255).  The rounding error of the floating-point sum (below
\* 1e-12) is smaller than the distance of n / total from the nearest
\* integer (above 1e-9), so the exact quotient is what the code computes.
FloorDivMicro(n, t) ==
    LET s == t \div EPS_INV
        e == t % EPS_INV
    IN  IF s = 0 THEN 0
        ELSE LET q == n \div s
                 r == n % s
             IN  IF r * EPS_INV >= q * e THEN q ELSE q - 1

\* np.clip(v, 0, 255)
clip(v) == Max(0, Min(255, v))

\* Lines 216-224: the blended color of a non-quiet column.  val / total
\* raises ZeroDivisionError when total is 0.
blend(vals) ==
    IF total_micro(vals) = 0
    THEN [status |-> "ZeroDivisionError", value |-> <<0, 0, 0>>]
    ELSE [status |-> "ok",
          value |-> [c \in 1..3 |->
              clip(FloorDivMicro(channel_sum(vals, c),
                                 total_micro(vals)))]]

\* The quiet test with the comparison turned around.
is_quiet_flipped(amp) == amp > QUIET_THRESHOLD

\* amp < QUIET_THRESHOLD
is_quiet(amp) == amp < QUIET_THRESHOLD

\* The rows of the quiet marker of column cx: center_y - 1 .. center_y + 1,
\* those inside the image.
quiet_rows(cx, h) ==
    {<<cx, center_y(h) + dy>> : dy \in {d \in -1..1 :
        0 <= center_y(h) + d /\ center_y(h) + d < h}}

\* The rows of the bar without the clip to the waveform area.
bar_rows_unclipped(cx, bh, h) ==
    {<<cx, y>> : y \in {r \in (center_y(h) - bh)..(center_y(h) + bh) : 0 <= r /\ r < h}}

\* The rows of the bar, drawn in the column to the left as well.
bar_rows_smear(cx, bh, h) ==
    {<<c, y>> : c \in {cx - 1, cx},
                y \in {r \in (center_y(h) - bh)..(center_y(h) + bh) :
                    TITLE_HEIGHT <= r /\ r < TITLE_HEIGHT + waveform_height(h)}}

\* The rows of the bar of column cx: center_y - bar_height .. center_y +
\* bar_height, those inside the waveform area.
bar_rows(cx, bh, h) ==
    {<<cx, y>> : y \in {r \in (center_y(h) - bh)..(center_y(h) + bh) :
        TITLE_HEIGHT <= r /\ r < TITLE_HEIGHT + waveform_height(h)}}

----------------------------------------------------------------------------
(* render_waveform: the requests the model renders                         *)

MaxSamples == 2
MaxWidth == 3
MaxBandMag == 128

\* Every band with the same magnitude sequence.
UniformBands(s) == [name \in BandSet |-> s]

\* One sample, one column: the original magnitude on both sides of the quiet
\* threshold against every combination of band magnitudes.
BlendAmps == {0, 7, 8, 100, 128}
BandMags == {0, 1, MaxBandMag}
BlendRequests ==
    [original_amps : {<<a>> : a \in BlendAmps},
     band_amps : [BandSet -> {<<m>> : m \in BandMags}],
     duration_seconds : {30},
     width : {1},
     height : {47}]

\* Short inputs against every canvas size and duration, the degenerate ones
\* included; the band sequences are shorter than, as long as and longer than
\* the original.
LayoutAmps == {0, 120}
Heights == {0, 5, 12, 46, 47, 50}
Durations == {-30, 0, 29, 30, 65, 90}
LayoutRequests ==
    [original_amps : SeqsUpTo(LayoutAmps, MaxSamples),
     band_amps : {UniformBands(<<>>), UniformBands(<<1>>),
                  UniformBands(<<3, 0, 9>>)},
     duration_seconds : Durations,
     width : 0..MaxWidth,
     height : Heights]

\* The ten-sample envelope of a short burst between two silences.
BurstAmps == <<0, 0, 0, 5, 120, 120, 5, 0, 0, 0>>
BurstRequests ==
    [original_amps : {BurstAmps},
     band_amps : {UniformBands([k \in 1..Len(BurstAmps) |-> 50])},
     duration_seconds : {65},
     width : {4, Len(BurstAmps)},
     height : {85}]

Requests == BlendRequests \cup LayoutRequests \cup BurstRequests

\* The requests whose bar pass is run with its columns in every order: one
\* duration, and no more columns than MaxWidth + 1.
AnyOrderRequests ==
    {rq \in LayoutRequests \cup BurstRequests :
        rq.duration_seconds = 65 /\ rq.width <= MaxWidth + 1}

\* err: the exception that left render_waveform and the pass it left from.
NoError == [type |-> "none", at |-> "none"]

RenderIdle ==
    /\ original_amps = <<>>
    /\ band_amps = UniformBands(<<>>)
    /\ duration_seconds = 0
    /\ width = 0
    /\ height = 0
    /\ pc = "idle"
    /\ resized_bands = UniformBands(<<>>)
    /\ pixels = <<>>
    /\ title = FALSE
    /\ x_indices = <<>>
    /\ cols = <<>>
    /\ x = 0
    /\ i = 0
    /\ ticks = <<>>
    /\ labels = {}
    /\ saved = FALSE
    /\ err = NoError

\* The state at the call of render_waveform with a request of R.
RenderInitOf(R) ==
    /\ \E rq \in R :
         /\ original_amps = rq.original_amps
         /\ band_amps = rq.band_amps
         /\ duration_seconds = rq.duration_seconds
         /\ width = rq.width
         /\ height = rq.height
    /\ pc = "start"
    /\ resized_bands = UniformBands(<<>>)
    /\ pixels = <<>>
    /\ title = FALSE
    /\ x_indices = <<>>
    /\ cols = <<>>
    /\ x = 0
    /\ i = 0
    /\ ticks = <<>>
    /\ labels = {}
    /\ saved = FALSE
    /\ err = NoError

RenderInit == RenderInitOf(Requests)

inputs == <<original_amps, band_amps, duration_seconds, width, height>>

\* An exception that is recorded and followed by the save.
RaiseThenSave(e) ==
    /\ pc' = "save"
    /\ err' = [type |-> e, at |-> pc]

\* An exception leaves render_waveform: nothing after the raising line runs.
Raise(e) ==
    /\ pc' = "raised"
    /\ err' = [type |-> e, at |-> pc]

----------------------------------------------------------------------------
(* render_waveform: the passes                                             *)

\* Lines 171-177: every band is resized to the original's sample count.
Start ==
    /\ pc = "start"
    /\ LET n_samples == Len(original_amps)
           resized == [name \in BandSet |-> resize_array(band_amps[name], n_samples)]
       IN  IF \A name \in BandSet : resized[name].status = "ok"
           THEN /\ resized_bands' = [name \in BandSet |-> resized[name].value]
                /\ pc' = "canvas"
                /\ err' = err
           ELSE /\ Raise("IndexError")
                /\ UNCHANGED resized_bands
    /\ UNCHANGED <<inputs, pixels, title, x_indices, cols, x, i, ticks, labels, saved>>

\* Lines 180-185: the canvas, filled with the background color.
CreateCanvas ==
    /\ pc = "canvas"
    /\ IF width < 0 \/ height < 0
       THEN /\ Raise("ValueError")
            /\ UNCHANGED pixels
       ELSE /\ pixels' = NewCanvas(width, height)
            /\ pc' = "title"
            /\ err' = err
    /\ UNCHANGED <<inputs, resized_bands, title, x_indices, cols, x, i, ticks, labels, saved>>

\* Lines 188-189: the track label in the title strip.
DrawTitle ==
    /\ pc = "title"
    /\ title' = TRUE
    /\ pc' = "center"
    /\ UNCHANGED <<inputs, resized_bands, pixels, x_indices, cols, x, i, ticks, labels, saved, err>>

\* Lines 192-196: the center line across every column.
CenterLine ==
    /\ pc = "center"
    /\ LET r == Paint(pixels, width, height,
                      {<<cx, center_y(height)>> : cx \in 0..(width - 1)},
                      CENTER_LINE_COLOR)
       IN  IF r.status = "ok"
           THEN /\ pixels' = r.value
                /\ pc' = "map"
                /\ err' = err
           ELSE /\ Raise(r.status)
                /\ UNCHANGED pixels
    /\ UNCHANGED <<inputs, resized_bands, title, x_indices, cols, x, i, ticks, labels, saved>>

\* Lines 198-199: the sample index of every column.
MapColumns ==
    /\ pc = "map"
    /\ x_indices' = [k \in 1..width |-> linspace(Len(original_amps) - 1, width, k - 1)]
    /\ x' = 0
    /\ pc' = "bars"
    /\ UNCHANGED <<inputs, resized_bands, pixels, title, cols, i, ticks, labels, saved, err>>

\* Lines 203-229: the body of the bar loop for column cx on the canvas px.
\* It reads the inputs, x_indices and the resized bands, and gives the
\* canvas it leaves and what it computed, or the exception it raises.
column(px, cx) ==
    LET idx == At(x_indices, cx)
    IN  IF ~InBounds(original_amps, idx)
        THEN [status |-> "IndexError", pixels |-> px, rec |-> <<>>]
        ELSE
        LET amp == Item(original_amps, idx)
            bh == bar_height(amp, height)
        IN  IF is_quiet(amp)
            THEN [status |-> "ok",
                  pixels |-> Paint(px, width, height, quiet_rows(cx, height),
                                   QUIET_COLOR).value,
                  rec |-> [x |-> cx, idx |-> idx, amp |-> amp, bar_height |-> bh,
                           quiet |-> TRUE, color |-> QUIET_COLOR]]
            ELSE
            LET c == blend(band_vals(resized_bands, idx))
            IN  IF c.status # "ok"
                THEN [status |-> c.status, pixels |-> px, rec |-> <<>>]
                ELSE [status |-> "ok",
                      pixels |-> Paint(px, width, height, bar_rows(cx, bh, height),
                                       c.value).value,
                      rec |-> [x |-> cx, idx |-> idx, amp |-> amp, bar_height |-> bh,
                               quiet |-> FALSE, color |-> c.value]]

\* One iteration of the bar loop, for column cx: cols logs what it computed
\* and x counts the iterations.
BarColumnOf(cx) ==
    LET r == column(pixels, cx)
    IN  IF r.status # "ok"
        THEN /\ Raise(r.status)
             /\ UNCHANGED <<pixels, cols, x>>
        ELSE /\ pixels' = r.pixels
             /\ cols' = Append(cols, r.rec)
             /\ x' = x + 1
             /\ UNCHANGED <<pc, err>>

\* Lines 202-229: one column of the bar pass, left to right.
BarColumn ==
    /\ pc = "bars"
    /\ x < width
    /\ BarColumnOf(x)
    /\ UNCHANGED <<inputs, resized_bands, title, x_indices, i, ticks, labels, saved>>

\* The bar pass with its columns taken in any order: one column that has
\* not been drawn yet.
BarColumnAnyOrder ==
    /\ pc = "bars"
    /\ \E cx \in 0..(width - 1) :
         /\ \A k \in 1..Len(cols) : cols[k].x # cx
         /\ BarColumnOf(cx)
    /\ UNCHANGED <<inputs, resized_bands, title, x_indices, i, ticks, labels, saved>>

\* The bar pass has visited every column.
BarsDone ==
    /\ pc = "bars"
    /\ x >= width
    /\ pc' = "timeline"
    /\ UNCHANGED <<inputs, resized_bands, pixels, title, x_indices, cols, x, i, ticks, labels, saved, err>>

\* Lines 232-234: the timeline strip's top row.
Timeline ==
    /\ pc = "timeline"
    /\ LET r == Paint(pixels, width, height,
                      {<<cx, timeline_y(height)>> : cx \in 0..(width - 1)},
                      TIMELINE_COLOR)
       IN  IF r.status = "ok"
           THEN /\ pixels' = r.value
                /\ pc' = "ticks"
                /\ i' = 0
                /\ err' = err
           ELSE /\ Raise(r.status)
                /\ UNCHANGED <<pixels, i>>
    /\ UNCHANGED <<inputs, resized_bands, title, x_indices, cols, x, ticks, labels, saved>>

\* The tick test with the duration itself shut out.
past_duration_strict(time_sec, d) == time_sec >= d

\* time_sec > duration_seconds, the break of line 242
past_duration(time_sec, d) == time_sec > d

\* range(int(duration_seconds / tick_interval) + 2)
tick_count(d) == TruncDiv(d, tick_interval) + 2

\* The tick column rounded to the nearest column.
tick_x_rounded(time_sec, d, w) == (2 * time_sec * (w - 1) + d) \div (2 * d)

\* x = int((time_sec / duration_seconds) * (width - 1)) for a duration > 0
tick_x(time_sec, d, w) == TruncDiv(time_sec * (w - 1), d)

\* The rows of a tick: timeline_y .. min(timeline_y + 5, height) - 1, drawn
\* when the tick's column is one of the image.
tick_rows(tx, w, h) ==
    IF 0 <= tx /\ tx < w
    THEN {<<tx, y>> : y \in timeline_y(h)..(Min(timeline_y(h) + TICK_ROWS, h) - 1)}
    ELSE {}

\* Lines 240-253: one iteration of the tick loop.
Tick ==
    /\ pc = "ticks"
    /\ i < tick_count(duration_seconds)
    /\ ~past_duration(i * tick_interval, duration_seconds)
    /\ LET time_sec == i * tick_interval
       IN  IF duration_seconds = 0
           THEN /\ Raise("ZeroDivisionError")
                /\ UNCHANGED <<pixels, i, ticks, labels>>
           ELSE
           LET tx == tick_x(time_sec, duration_seconds, width)
               r == Paint(pixels, width, height, tick_rows(tx, width, height), TICK_COLOR)
           IN  IF r.status # "ok"
               THEN /\ Raise(r.status)
                    /\ UNCHANGED <<pixels, i, ticks, labels>>
               ELSE /\ pixels' = r.value
                    /\ ticks' = Append(ticks, [time_sec |-> time_sec, x |-> tx])
                    /\ labels' = labels \cup
                         {[x |-> tx + LABEL_OFFSET, y |-> timeline_y(height) + LABEL_OFFSET,
                           minutes |-> time_sec \div 60, seconds |-> time_sec % 60]}
                    /\ i' = i + 1
                    /\ UNCHANGED <<pc, err>>
    /\ UNCHANGED <<inputs, resized_bands, title, x_indices, cols, x, saved>>

\* The tick loop ends: the range is exhausted or the break of line 243.
TicksDone ==
    /\ pc = "ticks"
    /\ \/ i >= tick_count(duration_seconds)
       \/ past_duration(i * tick_interval, duration_seconds)
    /\ pc' = "save"
    /\ UNCHANGED <<inputs, resized_bands, pixels, title, x_indices, cols, x, i, ticks, labels, saved, err>>

\* Line 255: img.save(output_file).  The encoder writes the file or raises
\* (an unwritable path, a format that refuses the image).
Save ==
    /\ pc = "save"
    /\ \E written \in BOOLEAN :
         IF written
         THEN /\ saved' = TRUE
              /\ pc' = "done"
              /\ err' = err
         ELSE /\ Raise("OSError")
              /\ saved' = saved
    /\ UNCHANGED <<inputs, resized_bands, pixels, title, x_indices, cols, x, i, ticks, labels>>

----------------------------------------------------------------------------
(* main: extraction, duration and the call of render_waveform              *)

MaxMainLen == 4

\* The peak-pair streams of the original the run of main is given: a quiet
\* value, a loud one and one outside int8.
MainValues == {-3, 127, 128}
MainStreams == SeqsUpTo(MainValues, MaxMainLen)

\* The peak-pair stream every band file holds.
MainBandStreams == {<<>>, <<7>>, <<-50, 50>>, <<-50, 50, -1, 1>>}

\* orig_data["samples_per_pixel"] and orig_data["sample_rate"]
SamplesPerPixel == 60
SampleRates == {0, 1, 2}

\* sys.argv[3] and sys.argv[4]
MainWidths == {2}
MainHeights == {12, 50}

MainInit ==
    /\ data \in MainStreams
    /\ ex_pc = "call"
    /\ ex_out = <<>>

\* Lines 306-332: the bands are extracted, the duration computed and
\* render_waveform called with what line 304 extracted.  An exception of
\* line 304 has left main before; one raised here leaves it now.
CallRender ==
    /\ ex_pc = "returned"
    /\ pc = "idle"
    /\ \E b \in MainBandStreams, wraps \in BOOLEAN, sample_rate \in SampleRates,
          w \in MainWidths, h \in MainHeights :
         LET r == extract_amplitudes(b, wraps)
             n_pixels == Len(data) \div 2
         IN  IF r.status # "ok"
             THEN /\ Raise(r.status)
                  /\ UNCHANGED inputs
             ELSE IF sample_rate = 0
             THEN /\ Raise("ZeroDivisionError")
                  /\ UNCHANGED inputs
             ELSE /\ original_amps' = ex_out
                  /\ band_amps' = UniformBands(r.value)
                  /\ duration_seconds' = (n_pixels * SamplesPerPixel) \div sample_rate
                  /\ width' = w
                  /\ height' = h
                  /\ pc' = "start"
                  /\ err' = err
    /\ UNCHANGED <<resized_bands, pixels, title, x_indices, cols, x, i, ticks, labels, saved>>

----------------------------------------------------------------------------
(* FileSystemSearcher.find_items                                           *)

MaxTime == 3

\* An optional timestamp: <<>> is None, <<t>> is the timestamp t.
None == <<>>
Some(t) == <<t>>

\* _is_modified_in_range: os.path.getmtime raising OSError gives False.
is_modified_in_range(stat, lo, hi) ==
    IF ~stat.ok THEN FALSE
    ELSE IF lo # None /\ stat.mtime <= lo[1] THEN FALSE
    ELSE IF hi # None /\ stat.mtime >= hi[1] THEN FALSE
    ELSE TRUE

\* What os.path.getmtime gives for a path: a modification time or OSError.
Stats == [ok : {TRUE}, mtime : 0..MaxTime] \cup [ok : {FALSE}, mtime : {0}]

\* The paths in the order os.walk reaches them: the root directory and a
\* file of it, then a subdirectory and a file of it.
WalkKinds == <<"dir", "file", "dir", "file">>

TimeBounds == {None} \cup {Some(t) : t \in 1..(MaxTime - 1)}

FindIdle ==
    /\ fs = <<>>
    /\ start_ts = None
    /\ end_ts = None
    /\ include_files = FALSE
    /\ walk = 0
    /\ yielded = <<>>

FindInit ==
    /\ fs \in [1..Len(WalkKinds) -> Stats]
    /\ start_ts \in TimeBounds
    /\ end_ts \in TimeBounds
    /\ include_files \in BOOLEAN
    /\ walk = 1
    /\ yielded = <<>>

\* Lines 68-69: the directory os.walk has reached is tested and yielded.
VisitDir ==
    /\ walk <= Len(WalkKinds)
    /\ WalkKinds[walk] = "dir"
    /\ yielded' = IF is_modified_in_range(fs[walk], start_ts, end_ts)
                  THEN Append(yielded, walk) ELSE yielded
    /\ walk' = walk + 1
    /\ UNCHANGED <<fs, start_ts, end_ts, include_files>>

\* Lines 71-75: a file of the directory is tested only with include_files.
VisitFile ==
    /\ walk <= Len(WalkKinds)
    /\ WalkKinds[walk] = "file"
    /\ yielded' = IF include_files /\ is_modified_in_range(fs[walk], start_ts, end_ts)
                  THEN Append(yielded, walk) ELSE yielded
    /\ walk' = walk + 1
    /\ UNCHANGED <<fs, start_ts, end_ts, include_files>>

----------------------------------------------------------------------------
(* The specifications                                                      *)

Init == ExtractIdle /\ ResizeIdle /\ RenderInit /\ FindIdle

Next ==
    \/ Start /\ UNCHANGED <<ex_vars, rs_vars, fi_vars>>
    \/ CreateCanvas /\ UNCHANGED <<ex_vars, rs_vars, fi_vars>>
    \/ DrawTitle /\ UNCHANGED <<ex_vars, rs_vars, fi_vars>>
    \/ CenterLine /\ UNCHANGED <<ex_vars, rs_vars, fi_vars>>
    \/ MapColumns /\ UNCHANGED <<ex_vars, rs_vars, fi_vars>>
    \/ BarColumn /\ UNCHANGED <<ex_vars, rs_vars, fi_vars>>
    \/ BarsDone /\ UNCHANGED <<ex_vars, rs_vars, fi_vars>>
    \/ Timeline /\ UNCHANGED <<ex_vars, rs_vars, fi_vars>>
    \/ Tick /\ UNCHANGED <<ex_vars, rs_vars, fi_vars>>
    \/ TicksDone /\ UNCHANGED <<ex_vars, rs_vars, fi_vars>>
    \/ Save /\ UNCHANGED <<ex_vars, rs_vars, fi_vars>>

Spec == Init /\ [][Next]_vars

\* render_waveform up to the end of the bar pass, the columns of the bar
\* pass taken in any order.
InitAnyOrder == ExtractIdle /\ ResizeIdle /\ RenderInitOf(AnyOrderRequests) /\ FindIdle

NextAnyOrder ==
    \/ Start /\ UNCHANGED <<ex_vars, rs_vars, fi_vars>>
    \/ CreateCanvas /\ UNCHANGED <<ex_vars, rs_vars, fi_vars>>
    \/ DrawTitle /\ UNCHANGED <<ex_vars, rs_vars, fi_vars>>
    \/ CenterLine /\ UNCHANGED <<ex_vars, rs_vars, fi_vars>>
    \/ MapColumns /\ UNCHANGED <<ex_vars, rs_vars, fi_vars>>
    \/ BarColumnAnyOrder /\ UNCHANGED <<ex_vars, rs_vars, fi_vars>>
    \/ BarsDone /\ UNCHANGED <<ex_vars, rs_vars, fi_vars>>

SpecAnyOrder == InitAnyOrder /\ [][NextAnyOrder]_vars

\* One run of main from the extraction of line 304 to the return of
\* render_waveform.
InitMain == MainInit /\ ResizeIdle /\ RenderIdle /\ FindIdle

NextMain ==
    \/ Extract /\ UNCHANGED <<rs_vars, rw_vars, fi_vars>>
    \/ CallRender /\ UNCHANGED <<ex_vars, rs_vars, fi_vars>>
    \/ Start /\ UNCHANGED <<ex_vars, rs_vars, fi_vars>>
    \/ CreateCanvas /\ UNCHANGED <<ex_vars, rs_vars, fi_vars>>
    \/ DrawTitle /\ UNCHANGED <<ex_vars, rs_vars, fi_vars>>
    \/ CenterLine /\ UNCHANGED <<ex_vars, rs_vars, fi_vars>>
    \/ MapColumns /\ UNCHANGED <<ex_vars, rs_vars, fi_vars>>
    \/ BarColumn /\ UNCHANGED <<ex_vars, rs_vars, fi_vars>>
    \/ BarsDone /\ UNCHANGED <<ex_vars, rs_vars, fi_vars>>
    \/ Timeline /\ UNCHANGED <<ex_vars, rs_vars, fi_vars>>
    \/ Tick /\ UNCHANGED <<ex_vars, rs_vars, fi_vars>>
    \/ TicksDone /\ UNCHANGED <<ex_vars, rs_vars, fi_vars>>
    \/ Save /\ UNCHANGED <<ex_vars, rs_vars, fi_vars>>

SpecMain == InitMain /\ [][NextMain]_vars

InitExtract == ExtractInit /\ ResizeIdle /\ RenderIdle /\ FindIdle

NextExtract == Extract /\ UNCHANGED <<rs_vars, rw_vars, fi_vars>>

SpecExtract == InitExtract /\ [][NextExtract]_vars

InitResize == ExtractIdle /\ ResizeInit /\ RenderIdle /\ FindIdle

NextResize == Resize /\ UNCHANGED <<ex_vars, rw_vars, fi_vars>>

SpecResize == InitResize /\ [][NextResize]_vars

InitFind == ExtractIdle /\ ResizeIdle /\ RenderIdle /\ FindInit

NextFind ==
    \/ VisitDir /\ UNCHANGED <<ex_vars, rs_vars, rw_vars>>
    \/ VisitFile /\ UNCHANGED <<ex_vars, rs_vars, rw_vars>>

SpecFind == InitFind /\ [][NextFind]_vars

----------------------------------------------------------------------------
(* extract_amplitudes: properties                                          *)

\* A valid peak-pair stream: an even number of values, all signed 8-bit.
ValidStream(d) ==
    /\ Len(d) % 2 = 0
    /\ \A k \in 1..Len(d) : InInt8(d[k])

\* extract_amplitudes has returned one magnitude per pair, each the larger
\* absolute value of its pair and each at most top.
MagnitudesUpTo(top) ==
    /\ ex_pc = "returned"
    /\ Len(ex_out) = Len(data) \div 2
    /\ \A k \in 1..Len(ex_out) :
         /\ ex_out[k] = Max(Abs(data[2 * k - 1]), Abs(data[2 * k]))
         /\ 0 <= ex_out[k] /\ ex_out[k] <= top

\* C1 as stated: for every valid peak-pair stream extract_amplitudes returns
\* len/2 magnitudes, magnitude[i] = max(|min[i]|, |max[i]|), every one of
\* them in [0, 127].
C1_MagnitudesWithin127 ==
    (ex_pc # "call" /\ ValidStream(data)) => MagnitudesUpTo(127)

\* C1 amended: for every valid peak-pair stream extract_amplitudes returns
\* len/2 magnitudes, magnitude[i] = max(|min[i]|, |max[i]|), every one of
\* them in [0, 128]; 128 is the magnitude of a pair holding -128.
C1_MagnitudesWithin128 ==
    (ex_pc # "call" /\ ValidStream(data)) => MagnitudesUpTo(128)

\* A valid stream of two pairs has been extracted and a pair holding -128
\* gave the magnitude 128.
C1_Witness ==
    /\ ex_pc = "returned"
    /\ ValidStream(data)
    /\ Len(data) = 4
    /\ \E k \in 1..Len(ex_out) : ex_out[k] = 128 /\ data[2 * k - 1] = -128

\* C8 as stated: for every stream of odd length and every stream holding a
\* value outside [-128, 127], extract_amplitudes raises and returns no
\* magnitude sequence.
C8_MalformedStreamRaises ==
    (ex_pc # "call" /\ ~ValidStream(data)) => ex_pc # "returned"

----------------------------------------------------------------------------
(* resize_array: properties                                                *)

\* C4: resize_array(seq, T) returns seq itself when T = len(seq), and the
\* one-element sequence [seq[0]] when T = 1 and seq is not empty.
C4_IdentityAndSingle ==
    rs_pc # "call" =>
        /\ target_len = Len(arr) => (rs_pc = "returned" /\ rs_out = arr)
        /\ (target_len = 1 /\ Len(arr) >= 1) =>
               (rs_pc = "returned" /\ rs_out = <<arr[1]>>)

\* A sequence whose first and last elements differ has been resized to one
\* element, its first.
C4_Witness ==
    /\ rs_pc = "returned"
    /\ target_len = 1
    /\ Len(arr) >= 2
    /\ arr[1] # arr[Len(arr)]
    /\ rs_out = <<arr[1]>>

\* Source index j is a nearest valid index to the real position
\* k * (L - 1) / (T - 1) of output position k.
NearestIndex(j, k, L, T) ==
    /\ 0 <= j /\ j < L
    /\ 2 * Abs(j * (T - 1) - k * (L - 1)) <= T - 1

\* C11 as stated: for a source of length L >= 1 and a target length T > 1,
\* output position i holds the source element at the index nearest to
\* i * (L - 1) / (T - 1): the position rounded to nearest, not truncated.
C11_RoundsToNearest ==
    (rs_pc = "returned" /\ Len(arr) >= 1 /\ target_len > 1) =>
        \A k \in 0..(target_len - 1) :
            \E j \in 0..(Len(arr) - 1) :
                /\ NearestIndex(j, k, Len(arr), target_len)
                /\ At(rs_out, k) = At(arr, j)

----------------------------------------------------------------------------
(* render_waveform: properties                                             *)

\* The band magnitudes the bar pass reads for the column logged at cols[k].
ColumnBands(k) == band_vals(resized_bands, cols[k].idx)

\* The rows of column cx that hold color.
RowsOf(cx, color) == {y \in 0..(height - 1) : pixels[<<cx, y>>] = color}

\* The rows of the quiet marker that lie in the image.
MarkerRows ==
    {y \in (center_y(height) - 1)..(center_y(height) + 1) : 0 <= y /\ y < height}

\* C2: a column whose original magnitude is below QUIET_THRESHOLD is drawn
\* as the quiet marker in QUIET_COLOR, whatever its six band magnitudes are:
\* during the bar pass the column holds QUIET_COLOR on the marker's rows and
\* the background everywhere else, and no blended color.
C2_QuietColumnIsMarker ==
    \A k \in 1..Len(cols) :
        cols[k].amp < QUIET_THRESHOLD =>
            /\ cols[k].quiet
            /\ cols[k].color = QUIET_COLOR
            /\ pc = "bars" =>
                 /\ RowsOf(k - 1, QUIET_COLOR) = MarkerRows
                 /\ RowsOf(k - 1, BG_COLOR) = (0..(height - 1)) \ MarkerRows

\* A column of magnitude 7 whose bands are all at the largest magnitude has
\* been drawn as the quiet marker.
C2_Witness ==
    /\ pc = "bars"
    /\ \E k \in 1..Len(cols) :
         /\ cols[k].amp = 7
         /\ \A name \in BandSet : ColumnBands(k)[name] = MaxBandMag
         /\ cols[k].quiet
         /\ RowsOf(k - 1, QUIET_COLOR) = MarkerRows

\* C3: a column with amp >= QUIET_THRESHOLD and non-negative band magnitudes
\* gets a color of three integer channels in [0, 255]; the blend never
\* divides by zero, and with all six bands at zero it gives the defined
\* triple (0, 0, 0).
C3_BlendInRange ==
    /\ \A k \in 1..Len(cols) :
         ~cols[k].quiet =>
            /\ cols[k].amp >= QUIET_THRESHOLD
            /\ cols[k].color \in (0..255) \X (0..255) \X (0..255)
            /\ (\A name \in BandSet : ColumnBands(k)[name] = 0) =>
                   cols[k].color = <<0, 0, 0>>
    /\ ~(err.at = "bars" /\ err.type = "ZeroDivisionError")
    /\ (pc \in {"timeline", "ticks", "save", "done"}) => Len(cols) = width

\* A column above the threshold whose six bands are all zero has been
\* blended.
C3_Witness ==
    \E k \in 1..Len(cols) :
        /\ cols[k].amp >= QUIET_THRESHOLD
        /\ ~cols[k].quiet
        /\ \A name \in BandSet : ColumnBands(k)[name] = 0
        /\ cols[k].color = <<0, 0, 0>>

\* The sum over the six bands of channel c of BAND_COLORS.
RECURSIVE ColorTotal(_, _)
ColorTotal(c, k) ==
    IF k = 0 THEN 0 ELSE BAND_COLORS[BandNames[k]][c] + ColorTotal(c, k - 1)

\* The six bands of the column logged at cols[k] are equal and positive.
UniformSplit(k) ==
    /\ ColumnBands(k)["sub"] > 0
    /\ \A name \in BandSet : ColumnBands(k)[name] = ColumnBands(k)["sub"]

BurstRendered ==
    /\ original_amps = BurstAmps
    /\ Len(cols) = width

\* The column logged at cols[k] is a bar of near-maximal height (at least
\* nine tenths of half the waveform area) in the blended band color.
NearMaximalBar(k) ==
    /\ ~cols[k].quiet
    /\ 10 * cols[k].bar_height >= 9 * half_height(height)
    /\ cols[k].bar_height <= half_height(height)
    /\ cols[k].color = blend(ColumnBands(k)).value
    /\ cols[k].color # QUIET_COLOR

\* C5 as stated: of the envelope [0,0,0,5,120,120,5,0,0,0], the columns of
\* samples 0-2 and 7-9 are quiet markers, those of samples 3 and 6
\* (magnitude 5) are non-quiet bars of small height, and those of samples 4
\* and 5 are near-maximal bars in the blended color.
C5_BurstAsStated ==
    BurstRendered =>
        \A k \in 1..Len(cols) :
            /\ cols[k].idx \in {0, 1, 2, 7, 8, 9} => cols[k].quiet
            /\ cols[k].idx \in {3, 6} =>
                   (~cols[k].quiet /\ 10 * cols[k].bar_height <= half_height(height))
            /\ cols[k].idx \in {4, 5} => NearMaximalBar(k)

\* C5 amended: the columns of samples 0-3 and 6-9 are quiet markers (the
\* magnitude 5 of samples 3 and 6 is below the threshold 8), and those of
\* samples 4 and 5 are near-maximal bars in the blended color.
C5_BurstAmended ==
    BurstRendered =>
        \A k \in 1..Len(cols) :
            /\ cols[k].idx \in {0, 1, 2, 3, 6, 7, 8, 9} =>
                   (cols[k].quiet /\ cols[k].color = QUIET_COLOR)
            /\ cols[k].idx \in {4, 5} => NearMaximalBar(k)

\* The ten columns of the burst, one per sample, have been drawn: sample 3
\* as a quiet marker, sample 4 as a bar.
C5_Witness ==
    /\ BurstRendered
    /\ width = Len(BurstAmps)
    /\ pc = "done"
    /\ cols[4].idx = 3 /\ cols[4].quiet
    /\ cols[5].idx = 4 /\ ~cols[5].quiet /\ cols[5].bar_height = 18

\* The indices resize_array reads of a band of length lb for n samples.
ResizeIndices(lb, n) ==
    IF lb = n THEN {} ELSE {linspace(lb - 1, n, k) : k \in 0..(n - 1)}

\* C12: with an original of length L >= 1, bands of length >= 1 (equal to L
\* or not) and any width, every index resize_array and the column mapping
\* use lies in [0, L - 1] of the sequence it indexes: no lookup of the
\* original or of a resized band raises IndexError, and every resized band
\* is as long as the original.
C12_IndicesInBounds ==
    (Len(original_amps) >= 1 /\ \A name \in BandSet : Len(band_amps[name]) >= 1) =>
        /\ ~(err.type = "IndexError" /\ err.at \in {"start", "bars"})
        /\ \A name \in BandSet :
             \A j \in ResizeIndices(Len(band_amps[name]), Len(original_amps)) :
                 0 <= j /\ j < Len(band_amps[name])
        /\ pc # "start" =>
             \A name \in BandSet : Len(resized_bands[name]) = Len(original_amps)
        /\ \A k \in 1..Len(x_indices) :
             0 <= x_indices[k] /\ x_indices[k] < Len(original_amps)
        /\ \A k \in 1..Len(cols) :
             0 <= cols[k].idx /\ cols[k].idx < Len(original_amps)

\* Three columns of a two-sample original whose bands hold three samples
\* have all been looked up.
C12_Witness ==
    /\ pc = "timeline"
    /\ width = 3
    /\ Len(original_amps) = 2
    /\ \A name \in BandSet : Len(band_amps[name]) = 3
    /\ Len(cols) = width
    /\ cols[3].idx = 1

\* The tick pass has ended without raising.
TicksFinished ==
    \/ pc \in {"save", "done"}
    \/ pc = "raised" /\ err.at = "save"

\* The multiples of tick_interval up to and including d.
TickTimes(d) == {k * tick_interval : k \in 0..(d \div tick_interval)}

\* C6: for a positive duration d the tick pass draws a tick and a label for
\* exactly the times k * 30 <= d, k * 30 = d included: one loop iteration
\* per such time, in order, its label M:SS, and its pixel in TICK_COLOR on
\* the timeline row of an image that has columns.
C6_TicksUpToDuration ==
    (TicksFinished /\ duration_seconds > 0) =>
        /\ Len(ticks) = Cardinality(TickTimes(duration_seconds))
        /\ \A k \in 1..Len(ticks) : ticks[k].time_sec = (k - 1) * tick_interval
        /\ {<<l.minutes, l.seconds>> : l \in labels}
               = {<<t \div 60, t % 60>> : t \in TickTimes(duration_seconds)}
        /\ \A k \in 1..Len(ticks) :
             width >= 1 =>
                 /\ OnCanvas(<<ticks[k].x, timeline_y(height)>>, width, height)
                 /\ pixels[Wrapped(<<ticks[k].x, timeline_y(height)>>, width, height)]
                        = TICK_COLOR

\* A track of 65 seconds has ticks at 0:00, 0:30 and 1:00 and no other.
C6_Witness ==
    /\ pc = "done"
    /\ duration_seconds = 65
    /\ width >= 1
    /\ [k \in 1..Len(ticks) |-> ticks[k].time_sec] = <<0, 30, 60>>

\* A request the renderer is to refuse.
Degenerate ==
    \/ duration_seconds <= 0
    \/ width = 0
    \/ height = 0
    \/ Len(original_amps) = 0

\* C7 as stated: a request with a zero or negative duration, a zero width
\* or height, or an empty magnitude sequence is rejected before any
\* rendering pass starts, and a zero duration never reaches the division of
\* the tick pass.
C7_DegenerateRejectedEarly ==
    Degenerate =>
        /\ pc \in {"start", "raised"}
        /\ pc = "raised" => err.at = "start"
        /\ pixels = <<>>
        /\ ~title

\* C13 as stated: bar_height = floor((amp / 127) * (waveform height / 2))
\* with the division by 2 exact, for every amp in [0, 127] and every canvas
\* height, odd waveform heights included.
C13_ExactHalfHeight ==
    \A k \in 1..Len(cols) :
        (0 <= cols[k].amp /\ cols[k].amp <= 127) =>
            cols[k].bar_height
                = (cols[k].amp * waveform_height(height)) \div (2 * FULL_SCALE)

\* C13 amended: bar_height is (amp / 127) * (waveform height // 2) truncated
\* toward zero, the half being the integer floor division: the integer b
\* with 127 * b <= amp * half < 127 * (b + 1) when the half is not
\* negative, and its mirror image when it is.
C13_IntegerHalfHeight ==
    \A k \in 1..Len(cols) :
        LET half == waveform_height(height) \div 2
            p == cols[k].amp * half
            b == cols[k].bar_height
        IN  IF p >= 0
            THEN FULL_SCALE * b <= p /\ p < FULL_SCALE * (b + 1)
            ELSE FULL_SCALE * b >= p /\ p > FULL_SCALE * (b - 1)

\* A column of magnitude 120 on a waveform area of 5 rows has the bar height
\* 1 of the integer half 2; the exact half 2.5 would give 2.
C13_Witness ==
    /\ height = 50
    /\ \E k \in 1..Len(cols) : cols[k].amp = 120 /\ cols[k].bar_height = 1

\* The rows of the waveform area.
AreaRows == {y \in 0..(height - 1) :
                TITLE_HEIGHT <= y /\ y < TITLE_HEIGHT + waveform_height(height)}

\* The rows center_y - bar_height .. center_y + bar_height of the column
\* logged at cols[k].
SpanRows(k) ==
    {y \in 0..(height - 1) :
        /\ center_y(height) - cols[k].bar_height <= y
        /\ y <= center_y(height) + cols[k].bar_height}

\* C14: a non-quiet column paints exactly the rows of center_y - bar_height
\* .. center_y + bar_height that lie in the waveform area, all in its one
\* color, and no row of the title strip or of the timeline strip: during
\* the bar pass every other row of the column is as the earlier passes left
\* it.
C14_BarClippedToArea ==
    pc = "bars" =>
        \A k \in 1..Len(cols) :
            ~cols[k].quiet =>
                \A y \in 0..(height - 1) :
                    pixels[<<k - 1, y>>] =
                        IF y \in SpanRows(k) \cap AreaRows THEN cols[k].color
                        ELSE IF y = center_y(height) THEN CENTER_LINE_COLOR
                        ELSE BG_COLOR

\* A column of magnitude 128 on a waveform area of two rows: its bar spans
\* three rows, the two of the area are painted and the third, the top row
\* of the timeline strip, is not.
C14_Witness ==
    /\ pc = "bars"
    /\ height = 47
    /\ \E k \in 1..Len(cols) :
         /\ cols[k].amp = 128
         /\ cols[k].bar_height = 1
         /\ pixels[<<k - 1, TITLE_HEIGHT>>] = cols[k].color
         /\ pixels[<<k - 1, timeline_y(height)>>] = BG_COLOR

\* C15 as stated: the center line is drawn in CENTER_LINE_COLOR at row
\* center_y across all columns, and after the bar pass every quiet column
\* still holds CENTER_LINE_COLOR at row center_y.
C15_CenterLineVisible ==
    /\ pc = "map" =>
         \A cx \in 0..(width - 1) : pixels[<<cx, center_y(height)>>] = CENTER_LINE_COLOR
    /\ pc = "timeline" =>
         \A k \in 1..Len(cols) :
             cols[k].quiet => pixels[<<k - 1, center_y(height)>>] = CENTER_LINE_COLOR

\* C16 as stated: a drawn tick at time t is at the column nearest to
\* t / d * (width - 1), rounded and not truncated, inside [0, width - 1],
\* and a tick at t = d is at column width - 1.
C16_TickColumnRounded ==
    \A k \in 1..Len(ticks) :
        width >= 1 =>
            /\ 2 * Abs(ticks[k].x * duration_seconds - ticks[k].time_sec * (width - 1))
                   <= duration_seconds
            /\ 0 <= ticks[k].x /\ ticks[k].x <= width - 1
            /\ ticks[k].time_sec = duration_seconds => ticks[k].x = width - 1

\* C16 amended: a drawn tick at time t is at the column t / d * (width - 1)
\* truncated, the integer x with x * d <= t * (width - 1) < (x + 1) * d,
\* inside [0, width - 1], and a tick at t = d is at column width - 1.
C16_TickColumnTruncated ==
    \A k \in 1..Len(ticks) :
        width >= 1 =>
            /\ ticks[k].x * duration_seconds <= ticks[k].time_sec * (width - 1)
            /\ ticks[k].time_sec * (width - 1) < (ticks[k].x + 1) * duration_seconds
            /\ 0 <= ticks[k].x /\ ticks[k].x <= width - 1
            /\ ticks[k].time_sec = duration_seconds => ticks[k].x = width - 1

\* On three columns the tick of 60 s of a 65 s track is at column 1 (the
\* position 1.85 truncated).
C16_Witness ==
    /\ duration_seconds = 65
    /\ width = 3
    /\ \E k \in 1..Len(ticks) : ticks[k].time_sec = 60 /\ ticks[k].x = 1

\* C19 as stated: on every canvas height on which rendering completes, the
\* marker of a quiet column is the three rows center_y - 1 .. center_y + 1,
\* all of them rows of the waveform area, none of the title strip or of
\* the timeline strip.
C19_MarkerInsideArea ==
    pc = "done" =>
        \A k \in 1..Len(cols) :
            cols[k].quiet =>
                /\ MarkerRows = (center_y(height) - 1)..(center_y(height) + 1)
                /\ MarkerRows \subseteq AreaRows

\* The canvas as the center-line pass leaves it.
CenterCanvas ==
    Paint(NewCanvas(width, height), width, height,
          {<<cx, center_y(height)>> : cx \in 0..(width - 1)},
          CENTER_LINE_COLOR).value

\* The canvas the left-to-right loop leaves when it runs columns k, k + 1,
\* ... on the canvas px.
RECURSIVE SequentialFrom(_, _)
SequentialFrom(px, k) ==
    IF k >= width THEN px
    ELSE LET r == column(px, k)
         IN  IF r.status # "ok" THEN px ELSE SequentialFrom(r.pixels, k + 1)

SequentialCanvas == SequentialFrom(CenterCanvas, 0)

\* The columns the bar pass has drawn.
Drawn == {cols[k].x : k \in 1..Len(cols)}

\* C17: with the columns of the bar pass drawn in any order, at every point
\* of the pass every drawn column holds the pixels that the sequential
\* left-to-right loop gives it and every other column is as the center-line
\* pass left it; when the pass ends the canvas is the sequential loop's.
C17_AnyOrderSameCanvas ==
    LET sequential == SequentialCanvas
        center == CenterCanvas
    IN  /\ pc \in {"bars", "timeline"} =>
              \A p \in DOMAIN pixels :
                  pixels[p] = IF p[1] \in Drawn THEN sequential[p] ELSE center[p]
        /\ pc = "timeline" => pixels = sequential

\* The bar pass of a three-column canvas ended after drawing the columns in
\* the order 2, 0, 1: a bar and two quiet markers.
C17_Witness ==
    /\ pc = "timeline"
    /\ width = 3
    /\ height = 50
    /\ Len(cols) = 3
    /\ cols[1].x = 2 /\ cols[2].x = 0 /\ cols[3].x = 1
    /\ ~cols[1].quiet /\ cols[1].bar_height > 0
    /\ cols[2].quiet

\* The passes of render_waveform in the order of the source: the resize of
\* the bands, initialize, title, center line, column map, bars, timeline,
\* ticks, save.
PassOrder ==
    <<"idle", "start", "canvas", "title", "center", "map", "bars", "timeline",
      "ticks", "save", "done">>

\* Every pass before the save has run to its end on the canvas.
PassesCompleted ==
    /\ DOMAIN pixels = (0..(width - 1)) \X (0..(height - 1))
    /\ title
    /\ Len(x_indices) = width
    /\ Len(cols) = width
    /\ \A k \in 1..width : cols[k].x = k - 1
    /\ x = width
    /\ \/ i >= tick_count(duration_seconds)
       \/ past_duration(i * tick_interval, duration_seconds)
    /\ Len(ticks) = i

\* An exception has left the run: line 304's, or one of a later line.
RunRaised == ex_pc \notin {"idle", "call", "returned"} \/ pc = "raised"

\* No step follows an exception, and none writes the image but the save
\* that follows the completed tick pass; the passes follow one another in
\* the order of the source.
InOrderStep ==
    /\ RunRaised => UNCHANGED vars
    /\ saved' # saved => ~saved /\ pc = "save" /\ pc' = "done"
    /\ pc' # pc =>
          \/ pc' = "raised" /\ err'.at = pc /\ err = NoError
          \/ \E k \in 1..(Len(PassOrder) - 1) :
                pc = PassOrder[k] /\ pc' = PassOrder[k + 1]

\* C18: the image is written only by the save that follows the resize,
\* initialize, title, center-line, bar, timeline and tick passes, each
\* completed and entered in that order; once the extraction or a pass has
\* raised, the run takes no further step and no image is written.
C18_SaveOnlyAfterAllPasses ==
    /\ [](saved => pc = "done" /\ err = NoError /\ ex_pc = "returned"
                   /\ PassesCompleted)
    /\ [](RunRaised => ~saved)
    /\ [][InOrderStep]_vars

\* A two-column image of a two-sample stream, three ticks on its timeline,
\* has been saved.
C18_Witness ==
    /\ saved
    /\ pc = "done"
    /\ ex_pc = "returned"
    /\ width = 2 /\ height = 50
    /\ Len(original_amps) = 2
    /\ Len(cols) = 2
    /\ Len(ticks) = 3

----------------------------------------------------------------------------
(* find_items: properties                                                  *)

\* Path k is one find_items tests: a directory, or a file with
\* include_files.
Tested(k) == WalkKinds[k] = "dir" \/ include_files

\* The modification time t lies in the closed interval of the two bounds.
InClosedRange(t) ==
    /\ start_ts = None \/ start_ts[1] <= t
    /\ end_ts = None \/ t <= end_ts[1]

\* C10 as stated: find_items yields a path exactly when its modification
\* time lies in the closed interval [start_ts, end_ts], a None bound being
\* unbounded; a path whose mtime equals a bound is yielded.
C10_ClosedInterval ==
    \A k \in 1..(walk - 1) :
        (Tested(k) /\ fs[k].ok) =>
            ((\E j \in 1..Len(yielded) : yielded[j] = k) <=> InClosedRange(fs[k].mtime))

====
